---- MODULE Spec2Model ----
(***************************************************************************)
(* Model of the flatnavy backend: the ServerKey credential authority       *)
(* (signAccessToken / signRefreshToken / verifyAccessToken /               *)
(* verifyRefreshToken), the createUser handler and the createPost handler. *)
(*                                                                         *)
(* JSON values are tagged records [k, v]: k is the JavaScript type the     *)
(* value has after JSON.parse ("absent" for a key the payload lacks).      *)
(* A string that the code takes apart (the scope claim) is a sequence of   *)
(* one-character strings; every other string is an atom.                   *)
(***************************************************************************)
EXTENDS Integers, Sequences, FiniteSets, TLC

VARIABLES now, cur, origin, res,
          upc, ubody, ucalls, ureplies, ubodyOut,
          id, posts, ppc, pbody, presp

keyVars == <<now, cur, origin, res>>
userVars == <<upc, ubody, ucalls, ureplies, ubodyOut>>
postVars == <<id, posts, ppc, pbody, presp>>
vars == <<now, cur, origin, res, upc, ubody, ucalls, ureplies, ubodyOut,
          id, posts, ppc, pbody, presp>>

(***************************************************************************)
(* Bounds of the model.                                                    *)
(***************************************************************************)
\* largest epoch-millisecond value of an iat / exp claim
MaxTime == 2
\* the clock runs from 0 to MaxNowSec seconds
MaxNowSec == 2
\* longest scopes sequence of a token
MaxScopes == 2
\* number of concurrent createUser requests
NumUserReqs == 2
\* number of concurrent createPost requests
NumPostReqs == 3

(***************************************************************************)
(* JSON values.                                                            *)
(***************************************************************************)
Absent == [k |-> "absent", v |-> 0]
Str(s) == [k |-> "string", v |-> s]
Num(n) == [k |-> "number", v |-> n]
Arr(a) == [k |-> "array", v |-> a]

\* payload.x == null
IsNullish(x) == x.k = "absent"

\* typeof payload.x != "string"
NotString(x) == x.k # "string"

(***************************************************************************)
(* Strings as character sequences: Array.prototype.join and                *)
(* String.prototype.split with the separator " ".                          *)
(***************************************************************************)
SP == " "

RECURSIVE join(_)
join(words) ==
  IF Len(words) = 0 THEN <<>>
  ELSE IF Len(words) = 1 THEN words[1]
  ELSE words[1] \o <<SP>> \o join(Tail(words))

RECURSIVE split(_)
split(s) ==
  IF \A i \in 1..Len(s) : s[i] # SP THEN <<s>>
  ELSE LET i == CHOOSE j \in 1..Len(s) :
                  s[j] = SP /\ \A h \in 1..(j - 1) : s[h] # SP
       IN <<SubSeq(s, 1, i - 1)>> \o split(SubSeq(s, i + 1, Len(s)))

(***************************************************************************)
(* Errors and results.  A Result is the pair [error, value]; an async      *)
(* function either returns its Result or ends in a rejection (thrown).     *)
(***************************************************************************)
NoError == [type |-> "null", message |-> ""]
NoToken == [none |-> TRUE]
NoPayload == [none |-> TRUE]

InvalidParameterError(msg) == [type |-> "InvalidParameterError", message |-> msg]

Returned(e, t) == [status |-> "returned", error |-> e, token |-> t]
Thrown(e) == [status |-> "thrown", error |-> e, token |-> NoToken]

(***************************************************************************)
(* Identity value types and Token records.                                 *)
(***************************************************************************)
\* UserHandle(raw): a Result; the handle must be a non-empty string
UserHandle(raw) ==
  IF raw.k = "string" /\ raw.v # ""
  THEN [error |-> NoError, value |-> [value |-> raw.v]]
  ELSE [error |-> InvalidParameterError("invalid user handle"),
        value |-> [value |-> ""]]

\* SessionId(raw): wraps the string
SessionId(raw) == [value |-> raw]

\* a Set built from an array keeps the first occurrence of each element
RECURSIVE Dedupe(_)
Dedupe(a) ==
  IF Len(a) = 0 THEN <<>>
  ELSE LET init == Dedupe(SubSeq(a, 1, Len(a) - 1))
           last == a[Len(a)]
       IN IF \E i \in 1..Len(init) : init[i] = last THEN init
          ELSE Append(init, last)

TokenRecord(params) ==
  [issuer |-> params.issuer,
   audience |-> Dedupe(params.audience),
   userHandle |-> params.userHandle,
   sessionId |-> params.sessionId,
   scopes |-> params.scopes,
   issuedAt |-> params.issuedAt,
   expiredAt |-> params.expiredAt]

\* the Token invariant: expiredAt strictly after issuedAt
LifetimePositive(params) == params.expiredAt > params.issuedAt

\* AccessToken(params): yields the token itself (its caller takes the return
\* value as the token), so a rejected construction ends in a throw
AccessToken(params) ==
  IF LifetimePositive(params)
  THEN [threw |-> FALSE, error |-> NoError, token |-> TokenRecord(params)]
  ELSE [threw |-> TRUE,
        error |-> InvalidParameterError("expiredAt must be after issuedAt"),
        token |-> NoToken]

\* RefreshToken(params): a Result
RefreshToken(params) ==
  IF LifetimePositive(params)
  THEN [error |-> NoError, token |-> TokenRecord(params)]
  ELSE [error |-> InvalidParameterError("expiredAt must be after issuedAt"),
        token |-> NoToken]

(***************************************************************************)
(* Keys, signatures and the compact JWS string.                            *)
(***************************************************************************)
\* the keypairs generateParams has produced
Keys == {"k1", "k2"}
ThisKey == "k1"

\* the two halves of keypair k
Params(k) == [privateKeyPem |-> <<"private", k>>, publicKeyPem |-> <<"public", k>>]

\* an Ed25519 signature made with a private key over a payload
Signature(privateKey, payload) == [signer |-> privateKey[2], over |-> payload]

\* a signature segment that no key ever produced over any payload
GarbledSignature == [signer |-> "nobody", over |-> NoPayload]

\* the signature verifies under the public key of the same pair, over the
\* very payload it was made for
SignatureVerifies(publicKey, payload, sig) ==
  sig.signer = publicKey[2] /\ sig.over = payload

NoSignature == [signer |-> "none", over |-> NoPayload]
NoJwt == [form |-> "none", payload |-> NoPayload, sig |-> NoSignature]
\* a string that is no compact JWS, such as "not-a-jwt"
NotAJwt == [form |-> "garbage", payload |-> NoPayload, sig |-> NoSignature]

\* new SignJWT(payload).setProtectedHeader({alg}).sign(privateKey)
SignJWT(payload, privateKey) ==
  [form |-> "jws", payload |-> payload, sig |-> Signature(privateKey, payload)]

Claims(token) ==
  [iss |-> token.issuer,
   aud |-> Arr(token.audience),
   sub |-> Str(token.userHandle.value),
   sid |-> Str(token.sessionId.value),
   scope |-> Str(join(token.scopes)),
   iat |-> Num(token.issuedAt),
   exp |-> Num(token.expiredAt)]

signAccessToken(k, token) == SignJWT(Claims(token), Params(k).privateKeyPem)

signRefreshToken(k, token) == SignJWT(Claims(token), Params(k).privateKeyPem)

(***************************************************************************)
(* jwtVerify(jwt, publicKey) of jose at clock reading t (milliseconds):    *)
(* the compact form, the signature, then the registered claims it always   *)
(* validates: iat, when present, must be a number; exp, when present, must *)
(* be a number and later than the clock in whole seconds.                  *)
(***************************************************************************)
\* epoch(date): Math.floor(date.getTime() / 1000)
epoch(t) == t \div 1000

\* exp as jose reads it: seconds since the epoch, against the clock in ms
ExpiredMs(exp, t) == exp <= t
Expired(exp, t) == exp <= epoch(t)

JoseError(code) == [type |-> code, message |-> ""]

ClaimsSetError(payload, t) ==
  IF payload.iat.k \notin {"absent", "number"}
    THEN JoseError("JWTClaimValidationFailed")
  ELSE IF payload.exp.k \notin {"absent", "number"}
    THEN JoseError("JWTClaimValidationFailed")
  ELSE IF payload.exp.k = "number" /\ Expired(payload.exp.v, t)
    THEN JoseError("JWTExpired")
  ELSE NoError

\* the same without the signature check (what decodeJwt would do)
jwtDecodeOnly(jwt, publicKey, t) ==
  IF jwt.form # "jws"
    THEN [threw |-> TRUE, error |-> JoseError("JWSInvalid"), payload |-> NoPayload]
  ELSE IF ClaimsSetError(jwt.payload, t) # NoError
    THEN [threw |-> TRUE, error |-> ClaimsSetError(jwt.payload, t),
          payload |-> NoPayload]
  ELSE [threw |-> FALSE, error |-> NoError, payload |-> jwt.payload]

jwtVerify(jwt, publicKey, t) ==
  IF jwt.form # "jws"
    THEN [threw |-> TRUE, error |-> JoseError("JWSInvalid"), payload |-> NoPayload]
  ELSE IF ~SignatureVerifies(publicKey, jwt.payload, jwt.sig)
    THEN [threw |-> TRUE, error |-> JoseError("JWSSignatureVerificationFailed"),
          payload |-> NoPayload]
  ELSE IF ClaimsSetError(jwt.payload, t) # NoError
    THEN [threw |-> TRUE, error |-> ClaimsSetError(jwt.payload, t),
          payload |-> NoPayload]
  ELSE [threw |-> FALSE, error |-> NoError, payload |-> jwt.payload]

(***************************************************************************)
(* The claim checks of verifyAccessToken / verifyRefreshToken: the first   *)
(* failing check returns its error; NoError when all pass.                 *)
(***************************************************************************)
\* sid examined before sub
claimErrorSidFirst(payload) ==
  IF IsNullish(payload.iss) THEN InvalidParameterError("no iss claim is given")
  ELSE IF NotString(payload.sid) THEN InvalidParameterError("no sid claim is given")
  ELSE IF IsNullish(payload.sub) THEN InvalidParameterError("no sub claim is given")
  ELSE IF UserHandle(payload.sub).error # NoError THEN UserHandle(payload.sub).error
  ELSE IF NotString(payload.scope) THEN InvalidParameterError("no scope claim is given")
  ELSE IF IsNullish(payload.iat) THEN InvalidParameterError("no iat claim is given")
  ELSE IF IsNullish(payload.exp) THEN InvalidParameterError("no exp claim is given")
  ELSE NoError

\* the UserHandle failure replaced by the generic sub error
claimErrorGenericSub(payload) ==
  IF IsNullish(payload.iss) THEN InvalidParameterError("no iss claim is given")
  ELSE IF IsNullish(payload.sub) THEN InvalidParameterError("no sub claim is given")
  ELSE IF UserHandle(payload.sub).error # NoError
    THEN InvalidParameterError("no sub claim is given")
  ELSE IF NotString(payload.sid) THEN InvalidParameterError("no sid claim is given")
  ELSE IF NotString(payload.scope) THEN InvalidParameterError("no scope claim is given")
  ELSE IF IsNullish(payload.iat) THEN InvalidParameterError("no iat claim is given")
  ELSE IF IsNullish(payload.exp) THEN InvalidParameterError("no exp claim is given")
  ELSE NoError

claimError(payload) ==
  IF IsNullish(payload.iss) THEN InvalidParameterError("no iss claim is given")
  ELSE IF IsNullish(payload.sub) THEN InvalidParameterError("no sub claim is given")
  ELSE IF UserHandle(payload.sub).error # NoError THEN UserHandle(payload.sub).error
  ELSE IF NotString(payload.sid) THEN InvalidParameterError("no sid claim is given")
  ELSE IF NotString(payload.scope) THEN InvalidParameterError("no scope claim is given")
  ELSE IF IsNullish(payload.iat) THEN InvalidParameterError("no iat claim is given")
  ELSE IF IsNullish(payload.exp) THEN InvalidParameterError("no exp claim is given")
  ELSE NoError

\* [payload.aud ?? []].flat()
flatAud(aud) ==
  IF IsNullish(aud) THEN <<>>
  ELSE IF aud.k = "array" THEN aud.v
  ELSE <<aud.v>>

\* the constructor arguments built from a payload that passed every check
TokenParams(payload) ==
  [issuer |-> payload.iss,
   audience |-> flatAud(payload.aud),
   userHandle |-> UserHandle(payload.sub).value,
   sessionId |-> SessionId(payload.sid.v),
   scopes |-> split(payload.scope.v),
   issuedAt |-> payload.iat.v,
   expiredAt |-> payload.exp.v]

verifyAccessToken(k, jwt, t) ==
  LET v == jwtVerify(jwt, Params(k).publicKeyPem, t)
  IN IF v.threw THEN Thrown(v.error)
     ELSE IF claimError(v.payload) # NoError
       THEN Returned(claimError(v.payload), NoToken)
     ELSE LET a == AccessToken(TokenParams(v.payload))
          IN IF a.threw THEN Thrown(a.error)
             ELSE Returned(NoError, a.token)

verifyRefreshToken(k, jwt, t) ==
  LET v == jwtVerify(jwt, Params(k).publicKeyPem, t)
  IN IF v.threw THEN Thrown(v.error)
     ELSE IF claimError(v.payload) # NoError
       THEN Returned(claimError(v.payload), NoToken)
     ELSE LET r == RefreshToken(TokenParams(v.payload))
          IN IF r.error # NoError THEN Returned(r.error, NoToken)
             ELSE Returned(NoError, r.token)

(***************************************************************************)
(* Inputs of the credential authority.                                     *)
(***************************************************************************)
Handles == {"alice", "bob"}
ScopeWords == {<<"r">>, <<"w">>}
Audiences == {<<>>, <<"web">>, <<"web", "app">>}

SeqsUpTo(S, n) == UNION {[1..m -> S] : m \in 0..n}

\* the valid tokens: every field present, expiredAt after issuedAt
Tokens ==
  {TokenRecord([issuer |-> Str("flatnavy"), audience |-> a,
                userHandle |-> UserHandle(Str(h)).value,
                sessionId |-> SessionId("s1"), scopes |-> sc,
                issuedAt |-> i, expiredAt |-> e]) :
     <<a, h, sc, i, e>> \in
       {x \in Audiences \X Handles \X SeqsUpTo(ScopeWords, MaxScopes)
                \X (0..MaxTime) \X (0..MaxTime) : x[5] > x[4]}}

\* a time claim: missing, a string instead of a number, or a number
TimeClaims == {Absent, Str("soon")} \cup {Num(n) : n \in 0..MaxTime}

\* the claim sets a holder of the private key may have signed
ClaimSets ==
  [iss : {Absent, Str("flatnavy"), Num(7)},
   aud : {Absent, Str("web")},
   sub : {Absent, Str("alice"), Str("")},
   sid : {Absent, Str("s1"), Num(5)},
   scope : {Absent, Str(<<"r", SP, "w">>), Num(0)},
   iat : TimeClaims,
   exp : TimeClaims]

NoRes == [op |-> "none", at |-> 0, out |-> [status |-> "none", error |-> NoError,
                                            token |-> NoToken]]

Origins ==
  {[kind |-> "token", token |-> t, claims |-> NoPayload, op |-> "none",
    key |-> "none", altered |-> FALSE] : t \in Tokens}
  \cup {[kind |-> "claims", token |-> NoToken, claims |-> c, op |-> "none",
         key |-> "none", altered |-> FALSE] : c \in ClaimSets}
  \cup {[kind |-> "string", token |-> NoToken, claims |-> NoPayload, op |-> "none",
         key |-> "none", altered |-> FALSE]}

NoBody == [handle |-> "", name |-> "", password |-> ""]
NoTokens == [accessToken |-> NoJwt, refreshToken |-> NoJwt]
NoPost == [id |-> 0, body |-> ""]

IdleUser ==
  /\ upc = [r \in 1..NumUserReqs |-> "idle"]
  /\ ubody = [r \in 1..NumUserReqs |-> NoBody]
  /\ ucalls = [r \in 1..NumUserReqs |-> <<>>]
  /\ ureplies = [r \in 1..NumUserReqs |-> <<>>]
  /\ ubodyOut = [r \in 1..NumUserReqs |-> NoTokens]

IdlePost ==
  /\ id = 1
  /\ posts = <<>>
  /\ ppc = [r \in 1..NumPostReqs |-> "idle"]
  /\ pbody = [r \in 1..NumPostReqs |-> ""]
  /\ presp = [r \in 1..NumPostReqs |-> NoPost]

IdleKey ==
  /\ now = 0
  /\ cur = NoJwt
  /\ origin = [kind |-> "string", token |-> NoToken, claims |-> NoPayload,
               op |-> "none", key |-> "none", altered |-> FALSE]
  /\ res = NoRes

InitKey ==
  /\ now = 0
  /\ cur = NoJwt
  /\ origin \in Origins
  /\ res = NoRes
  /\ IdleUser
  /\ IdlePost

(***************************************************************************)
(* Operations of the credential authority and of its environment.          *)
(***************************************************************************)
\* the clock advances
Tick ==
  /\ now < MaxNowSec * 1000
  /\ now' = now + 1000
  /\ UNCHANGED <<cur, origin, res>>

\* a ServerKey built from keypair k signs the token as an access token
SignAccessToken(k) ==
  /\ cur = NoJwt /\ origin.kind = "token"
  /\ cur' = signAccessToken(k, origin.token)
  /\ origin' = [origin EXCEPT !.op = "signAccessToken", !.key = k]
  /\ UNCHANGED <<now, res>>

SignRefreshToken(k) ==
  /\ cur = NoJwt /\ origin.kind = "token"
  /\ cur' = signRefreshToken(k, origin.token)
  /\ origin' = [origin EXCEPT !.op = "signRefreshToken", !.key = k]
  /\ UNCHANGED <<now, res>>

\* a holder of this ServerKey's private key signs an arbitrary claim set
SignClaims ==
  /\ cur = NoJwt /\ origin.kind = "claims"
  /\ cur' = SignJWT(origin.claims, Params(ThisKey).privateKeyPem)
  /\ origin' = [origin EXCEPT !.op = "SignJWT", !.key = ThisKey]
  /\ UNCHANGED <<now, res>>

\* a caller presents a string that is no JWT
PresentString ==
  /\ cur = NoJwt /\ origin.kind = "string"
  /\ cur' = NotAJwt
  /\ origin' = [origin EXCEPT !.op = "present"]
  /\ UNCHANGED <<now, res>>

\* the signature segment of a signed string is altered
AlterSignature ==
  /\ cur.form = "jws" /\ origin.kind = "token" /\ ~origin.altered /\ res = NoRes
  /\ cur' = [cur EXCEPT !.sig = GarbledSignature]
  /\ origin' = [origin EXCEPT !.altered = TRUE]
  /\ UNCHANGED <<now, res>>

\* the payload segment of a signed string is altered, the signature kept
AlterPayload ==
  /\ cur.form = "jws" /\ origin.kind = "token" /\ ~origin.altered /\ res = NoRes
  /\ \E h \in Handles :
       /\ Str(h) # cur.payload.sub
       /\ cur' = [cur EXCEPT !.payload.sub = Str(h)]
  /\ origin' = [origin EXCEPT !.altered = TRUE]
  /\ UNCHANGED <<now, res>>

\* this ServerKey verifies the presented string
VerifyAccessToken ==
  /\ cur # NoJwt /\ res = NoRes
  /\ res' = [op |-> "verifyAccessToken", at |-> now,
             out |-> verifyAccessToken(ThisKey, cur, now)]
  /\ UNCHANGED <<now, cur, origin>>

VerifyRefreshToken ==
  /\ cur # NoJwt /\ res = NoRes
  /\ res' = [op |-> "verifyRefreshToken", at |-> now,
             out |-> verifyRefreshToken(ThisKey, cur, now)]
  /\ UNCHANGED <<now, cur, origin>>

NextKey ==
  \/ Tick /\ UNCHANGED <<userVars, postVars>>
  \/ (\E k \in Keys : SignAccessToken(k)) /\ UNCHANGED <<userVars, postVars>>
  \/ (\E k \in Keys : SignRefreshToken(k)) /\ UNCHANGED <<userVars, postVars>>
  \/ SignClaims /\ UNCHANGED <<userVars, postVars>>
  \/ PresentString /\ UNCHANGED <<userVars, postVars>>
  \/ AlterSignature /\ UNCHANGED <<userVars, postVars>>
  \/ AlterPayload /\ UNCHANGED <<userVars, postVars>>
  \/ VerifyAccessToken /\ UNCHANGED <<userVars, postVars>>
  \/ VerifyRefreshToken /\ UNCHANGED <<userVars, postVars>>

SpecKey == InitKey /\ [][NextKey]_vars

(***************************************************************************)
(* Properties of the credential authority (checked under SpecKey).         *)
(***************************************************************************)
Range(f) == {f[i] : i \in DOMAIN f}

\* the presented string is one this ServerKey's private key signed, unmodified
SignedUnaltered == cur.form = "jws" /\ origin.key = ThisKey /\ ~origin.altered

Succeeded == res.out.status = "returned" /\ res.out.error = NoError

\* the reconstructed token a carries the fields of the signed token b
SameToken(a, b) ==
  /\ a.issuer = b.issuer
  /\ Range(a.audience) = Range(b.audience)
  /\ a.userHandle = b.userHandle
  /\ a.sessionId = b.sessionId
  /\ a.scopes = b.scopes
  /\ a.issuedAt = b.issuedAt
  /\ a.expiredAt = b.expiredAt

\* C1: verifyAccessToken(signAccessToken(t)) on the same ServerKey returns
\* [null, t'] with t' carrying the fields of t, for every valid token t,
\* the empty scopes sequence included.
RoundTripAccess ==
  (origin.op = "signAccessToken" /\ SignedUnaltered /\ res.op = "verifyAccessToken")
    => (Succeeded /\ SameToken(res.out.token, origin.token))

\* C2: every failure of verifyAccessToken / verifyRefreshToken is a returned
\* result whose first element is an InvalidParameterError; none is thrown.
FailuresAreReturned ==
  (res # NoRes /\ ~Succeeded)
    => (res.out.status = "returned" /\ res.out.error.type = "InvalidParameterError")

\* C3: a verification succeeds only for a string that this ServerKey's own
\* private key signed and that was not altered afterwards.
Unforgeable ==
  (res # NoRes /\ Succeeded) => (origin.key = ThisKey /\ ~origin.altered)

\* C3 witness: a string of this ServerKey with an altered signature segment
\* was verified and rejected
AlteredSignatureRejected ==
  /\ origin.key = ThisKey /\ origin.altered /\ cur.sig = GarbledSignature
  /\ res # NoRes /\ ~Succeeded

\* a string signed by the ServerKey of another keypair was verified and rejected
ForeignKeyRejected ==
  /\ origin.key \in Keys \ {ThisKey} /\ ~origin.altered
  /\ res # NoRes /\ ~Succeeded

ClaimOrder == <<"iss", "sub", "sid", "scope", "iat", "exp">>

NoClaimError(c) == InvalidParameterError("no " \o c \o " claim is given")

\* what jwtVerify demands of iat and exp before any claim is looked at
TimeClaimsAccepted(p, t) ==
  /\ p.iat.k \in {"absent", "number"}
  /\ p.exp.k \in {"absent", "number"}
  /\ p.exp.k = "number" => p.exp.v > t \div 1000

\* the check the code makes on claim c fails
CheckFails(p, c) ==
  CASE c = "iss" -> p.iss.k = "absent"
    [] c = "sub" -> p.sub.k = "absent" \/ UserHandle(p.sub).error # NoError
    [] c = "sid" -> p.sid.k # "string"
    [] c = "scope" -> p.scope.k # "string"
    [] c = "iat" -> p.iat.k = "absent"
    [] c = "exp" -> p.exp.k = "absent"

CheckError(p, c) ==
  IF c = "sub" /\ p.sub.k # "absent" THEN UserHandle(p.sub).error
  ELSE NoClaimError(c)

\* C4 (amended): for a correctly signed string, jwtVerify first throws when
\* iat or exp is present and not a number or exp is not after the clock in
\* seconds; otherwise the checks iss present, sub present and a valid handle,
\* sid a string, scope a string, iat present, exp present are made in this
\* order and the error of the first failing one is returned, whatever the
\* later claims are.
OrderedClaimValidation ==
  (origin.op = "SignJWT" /\ SignedUnaltered /\ res # NoRes)
    => IF ~TimeClaimsAccepted(cur.payload, res.at)
       THEN res.out.status = "thrown"
       ELSE \A i \in 1..Len(ClaimOrder) :
              (/\ CheckFails(cur.payload, ClaimOrder[i])
               /\ \A j \in 1..(i - 1) : ~CheckFails(cur.payload, ClaimOrder[j]))
                => res.out = Returned(CheckError(cur.payload, ClaimOrder[i]), NoToken)

\* C4 witness: iss present, sub, sid, scope, iat and exp all missing, and the
\* result is the sub error
SubErrorWithLaterClaimsMissing ==
  /\ origin.op = "SignJWT" /\ SignedUnaltered
  /\ cur.payload.iss.k = "string"
  /\ \A c \in {"sub", "sid", "scope", "iat", "exp"} : cur.payload[c] = Absent
  /\ res.op = "verifyRefreshToken"
  /\ res.out = Returned(InvalidParameterError("no sub claim is given"), NoToken)

\* claim c is missing or has the wrong type
MissingOrMistyped(p, c) ==
  IF c \in {"iat", "exp"} THEN p[c].k # "number" ELSE p[c].k # "string"

\* C4 (as stated): the claim-specific error of the first claim, in the order
\* iss, sub, sid, scope, iat, exp, that is missing or mistyped is returned,
\* whatever the state of the later claims.
FirstMissingOrMistypedClaimReported ==
  (origin.op = "SignJWT" /\ SignedUnaltered /\ res # NoRes
     /\ cur.payload.sub # Str(""))
    => \A i \in 1..Len(ClaimOrder) :
         (/\ MissingOrMistyped(cur.payload, ClaimOrder[i])
          /\ \A j \in 1..(i - 1) : ~MissingOrMistyped(cur.payload, ClaimOrder[j]))
           => res.out = Returned(NoClaimError(ClaimOrder[i]), NoToken)

\* every required claim is present and well-typed
Complete(p) ==
  /\ p.iss.k = "string"
  /\ UserHandle(p.sub).error = NoError
  /\ p.sid.k = "string"
  /\ p.scope.k = "string"
  /\ p.iat.k = "number"
  /\ p.exp.k = "number"

\* C5: for a correctly signed payload with exp <= iat, verifyAccessToken and
\* verifyRefreshToken return an error (stated for complete payloads whose exp
\* is still ahead of the clock in seconds).
NonPositiveLifetimeReturnsError ==
  (/\ SignedUnaltered /\ res # NoRes
   /\ Complete(cur.payload)
   /\ cur.payload.exp.v <= cur.payload.iat.v
   /\ cur.payload.exp.v > res.at \div 1000)
    => (res.out.status = "returned" /\ res.out.error # NoError)

\* C6: for every valid AccessToken t, signAccessToken(t) is accepted by
\* verifyRefreshToken of the same ServerKey and decodes to the fields of t.
CrossVerifyRefresh ==
  (origin.op = "signAccessToken" /\ SignedUnaltered /\ res.op = "verifyRefreshToken")
    => (Succeeded /\ SameToken(res.out.token, origin.token))

\* C7 (amended): for a correctly signed string carrying every required claim
\* with exp > iat, verifyAccessToken throws JWTExpired when exp is not after
\* the clock in whole seconds, and otherwise returns the token of the payload;
\* exp being epoch milliseconds, that also reconstructs a token whose
\* expiredAt is already in the past.
ExpiryComparedInSeconds ==
  (/\ SignedUnaltered /\ res.op = "verifyAccessToken"
   /\ Complete(cur.payload)
   /\ cur.payload.exp.v > cur.payload.iat.v)
    => IF cur.payload.exp.v > res.at \div 1000
       THEN /\ Succeeded
            /\ res.out.token.userHandle.value = cur.payload.sub.v
            /\ res.out.token.sessionId.value = cur.payload.sid.v
            /\ res.out.token.issuedAt = cur.payload.iat.v
            /\ res.out.token.expiredAt = cur.payload.exp.v
       ELSE res.out = Thrown(JoseError("JWTExpired"))

\* C7 witness: a token whose expiredAt had passed was reconstructed
ExpiredTokenReconstructed ==
  /\ SignedUnaltered /\ res.op = "verifyAccessToken" /\ Succeeded
  /\ res.at > res.out.token.expiredAt

\* C7 (as stated): such a string verifies to the successful token whatever
\* the current time is.
VerificationIgnoresClock ==
  (/\ SignedUnaltered /\ res.op = "verifyAccessToken"
   /\ Complete(cur.payload)
   /\ cur.payload.exp.v > cur.payload.iat.v)
    => Succeeded

\* iss is present and sub is present but no valid user handle
InvalidHandleCase ==
  /\ origin.op = "SignJWT" /\ SignedUnaltered /\ res # NoRes
  /\ cur.payload.iss.k # "absent"
  /\ cur.payload.sub.k # "absent"
  /\ UserHandle(cur.payload.sub).error # NoError

\* C8 (amended): with iss present and sub present but not a valid handle,
\* verify* returns the UserHandle constructor's error, also when sid, scope,
\* iat and exp are missing, unless jwtVerify threw first because iat or exp
\* is present and not a number or exp is not after the clock in seconds.
InvalidHandleErrorReturned ==
  InvalidHandleCase
    => IF TimeClaimsAccepted(cur.payload, res.at)
       THEN res.out = Returned(InvalidParameterError("invalid user handle"), NoToken)
       ELSE res.out.status = "thrown"

\* C8 witness: the handle error came back although sid, scope, iat and exp
\* are all missing
HandleErrorBeforeLaterClaims ==
  /\ InvalidHandleCase
  /\ \A c \in {"sid", "scope", "iat", "exp"} : cur.payload[c] = Absent
  /\ res.op = "verifyAccessToken"
  /\ res.out.error = UserHandle(cur.payload.sub).error

\* C8 (as stated): the UserHandle constructor's error is returned whenever
\* iss is present and sub is present but invalid.
InvalidHandleAlwaysReported ==
  InvalidHandleCase => res.out = Returned(UserHandle(cur.payload.sub).error, NoToken)

(***************************************************************************)
(* The createUser handler.  Each request runs the handler from one await   *)
(* to the next; the handlers of different requests interleave there.       *)
(* ucalls[r] lists the calls request r made on the repositories and the    *)
(* ServerKey, ureplies[r] the replies it sent.                             *)
(***************************************************************************)
UserReqs == 1..NumUserReqs

UserBodies == [handle : {"alice", ""}, name : {"Alice", ""}, password : {"secret", ""}]

\* User({id, handle, name}): a Result; the name must not be empty
User(params) ==
  IF params.name # "" THEN [error |-> NoError, value |-> params]
  ELSE [error |-> InvalidParameterError("invalid user name"), value |-> params]

\* HashedUserPassword.hash(password): a Result; the password must not be empty
HashedUserPasswordHash(password) ==
  IF password # "" THEN [error |-> NoError, value |-> <<"hash", password>>]
  ELSE [error |-> InvalidParameterError("invalid password"), value |-> <<>>]

\* sessionRepository.createSession({user}): a token pair for the user
createSession(user) ==
  LET t == TokenRecord([issuer |-> Str("flatnavy"), audience |-> <<>>,
                        userHandle |-> user.handle, sessionId |-> SessionId("s1"),
                        scopes |-> <<>>, issuedAt |-> 0, expiredAt |-> 1])
  IN <<t, [t EXCEPT !.expiredAt = 2]>>

Call(fn, ok) == [fn |-> fn, ok |-> ok]

\* lines 230-246 with the handle check dropped
firstStepNoHandleCheck(body) ==
  IF User([id |-> 0, handle |-> UserHandle(Str(body.handle)).value,
           name |-> body.name]).error # NoError THEN "reply400"
  ELSE "hash"

\* lines 230-246: up to the first await
firstStep(body) ==
  IF UserHandle(Str(body.handle)).error # NoError THEN "reply400"
  ELSE IF User([id |-> 0, handle |-> UserHandle(Str(body.handle)).value,
                name |-> body.name]).error # NoError THEN "reply400"
  ELSE "hash"

\* the user the handler built from the body
UserOf(body) ==
  User([id |-> 0, handle |-> UserHandle(Str(body.handle)).value,
        name |-> body.name]).value

\* the request arrives and the handler runs to its first await
UserStart(r) ==
  /\ upc[r] = "idle"
  /\ \E body \in UserBodies :
       /\ ubody' = [ubody EXCEPT ![r] = body]
       /\ IF firstStep(body) = "reply400"
          THEN /\ ureplies' = [ureplies EXCEPT ![r] = Append(@, 400)]
               /\ upc' = [upc EXCEPT ![r] = "done"]
          ELSE /\ upc' = [upc EXCEPT ![r] = "hashing"]
               /\ UNCHANGED ureplies
  /\ UNCHANGED <<ucalls, ubodyOut>>

\* HashedUserPassword.hash resolves
UserHashed(r) ==
  /\ upc[r] = "hashing"
  /\ IF HashedUserPasswordHash(ubody[r].password).error # NoError
     THEN /\ ureplies' = [ureplies EXCEPT ![r] = Append(@, 400)]
          /\ upc' = [upc EXCEPT ![r] = "done"]
          /\ UNCHANGED ucalls
     ELSE /\ upc' = [upc EXCEPT ![r] = "creating"]
          /\ UNCHANGED <<ureplies, ucalls>>
  /\ UNCHANGED <<ubody, ubodyOut>>

\* userRepository.create resolves, with or without an error
UserCreated(r) ==
  /\ upc[r] = "creating"
  /\ \E ok \in BOOLEAN :
       /\ ucalls' = [ucalls EXCEPT ![r] = Append(@, Call("userRepository.create", ok))]
       /\ IF ~ok
          THEN /\ ureplies' = [ureplies EXCEPT ![r] = Append(@, 409)]
               /\ upc' = [upc EXCEPT ![r] = "done"]
          ELSE /\ upc' = [upc EXCEPT ![r] = "gettingKey"]
               /\ UNCHANGED ureplies
  /\ UNCHANGED <<ubody, ubodyOut>>

\* serverKeyRepository.get resolves
UserGotKey(r) ==
  /\ upc[r] = "gettingKey"
  /\ ucalls' = [ucalls EXCEPT ![r] = Append(@, Call("serverKeyRepository.get", TRUE))]
  /\ upc' = [upc EXCEPT ![r] = "creatingSession"]
  /\ UNCHANGED <<ubody, ureplies, ubodyOut>>

\* sessionRepository.createSession resolves
UserSessionCreated(r) ==
  /\ upc[r] = "creatingSession"
  /\ ucalls' = [ucalls EXCEPT ![r] =
                  Append(@, Call("sessionRepository.createSession", TRUE))]
  /\ upc' = [upc EXCEPT ![r] = "signingAccess"]
  /\ UNCHANGED <<ubody, ureplies, ubodyOut>>

\* serverKey.signAccessToken resolves
UserAccessSigned(r) ==
  /\ upc[r] = "signingAccess"
  /\ ucalls' = [ucalls EXCEPT ![r] = Append(@, Call("signAccessToken", TRUE))]
  /\ ubodyOut' = [ubodyOut EXCEPT ![r].accessToken =
                    signAccessToken(ThisKey, createSession(UserOf(ubody[r]))[1])]
  /\ upc' = [upc EXCEPT ![r] = "signingRefresh"]
  /\ UNCHANGED <<ubody, ureplies>>

\* serverKey.signRefreshToken resolves and the 201 reply is sent
UserRefreshSigned(r) ==
  /\ upc[r] = "signingRefresh"
  /\ ucalls' = [ucalls EXCEPT ![r] = Append(@, Call("signRefreshToken", TRUE))]
  /\ ubodyOut' = [ubodyOut EXCEPT ![r].refreshToken =
                    signRefreshToken(ThisKey, createSession(UserOf(ubody[r]))[2])]
  /\ ureplies' = [ureplies EXCEPT ![r] = Append(@, 201)]
  /\ upc' = [upc EXCEPT ![r] = "done"]
  /\ UNCHANGED ubody

InitUser == IdleKey /\ IdleUser /\ IdlePost

NextUser ==
  \/ (\E r \in UserReqs : UserStart(r)) /\ UNCHANGED <<keyVars, postVars>>
  \/ (\E r \in UserReqs : UserHashed(r)) /\ UNCHANGED <<keyVars, postVars>>
  \/ (\E r \in UserReqs : UserCreated(r)) /\ UNCHANGED <<keyVars, postVars>>
  \/ (\E r \in UserReqs : UserGotKey(r)) /\ UNCHANGED <<keyVars, postVars>>
  \/ (\E r \in UserReqs : UserSessionCreated(r)) /\ UNCHANGED <<keyVars, postVars>>
  \/ (\E r \in UserReqs : UserAccessSigned(r)) /\ UNCHANGED <<keyVars, postVars>>
  \/ (\E r \in UserReqs : UserRefreshSigned(r)) /\ UNCHANGED <<keyVars, postVars>>

SpecUser == InitUser /\ [][NextUser]_vars

(***************************************************************************)
(* The createPost handler: the module-level id and PostStore.global.       *)
(***************************************************************************)
PostReqs == 1..NumPostReqs

PostBodies == {"hello", "world"}

\* the counter is not advanced
idStuck(i) == i

\* id++ leaves the counter one larger
idIncremented(i) == i + 1

\* a handler is between its start and its await: no other handler runs
\* meanwhile (one thread, run to completion)
Running == \E q \in PostReqs : ppc[q] = "pushed"

\* the handler starts: PostStore.global.pushPost(body)
PostPush(r) ==
  /\ ppc[r] = "idle" /\ ~Running
  /\ \E body \in PostBodies :
       /\ pbody' = [pbody EXCEPT ![r] = body]
       /\ posts' = Append(posts, body)
  /\ ppc' = [ppc EXCEPT ![r] = "pushed"]
  /\ UNCHANGED <<id, presp>>

\* the response is built with id++ and handed to send, which is awaited
PostTakeId(r) ==
  /\ ppc[r] = "pushed"
  /\ presp' = [presp EXCEPT ![r] = [id |-> id, body |-> pbody[r]]]
  /\ id' = idIncremented(id)
  /\ ppc' = [ppc EXCEPT ![r] = "sending"]
  /\ UNCHANGED <<posts, pbody>>

\* the awaited send of the 201 reply completes
PostReplied(r) ==
  /\ ppc[r] = "sending"
  /\ ppc' = [ppc EXCEPT ![r] = "done"]
  /\ UNCHANGED <<id, posts, pbody, presp>>

InitPost == IdleKey /\ IdleUser /\ IdlePost

NextPost ==
  \/ (\E r \in PostReqs : PostPush(r)) /\ UNCHANGED <<keyVars, userVars>>
  \/ (\E r \in PostReqs : PostTakeId(r)) /\ UNCHANGED <<keyVars, userVars>>
  \/ (\E r \in PostReqs : PostReplied(r)) /\ UNCHANGED <<keyVars, userVars>>

SpecPost == InitPost /\ [][NextPost]_vars

(***************************************************************************)
(* Properties of the createUser handler (checked under SpecUser).          *)
(***************************************************************************)
Made(r, fn) == \E i \in 1..Len(ucalls[r]) : ucalls[r][i].fn = fn

Times(r, fn) == Cardinality({i \in 1..Len(ucalls[r]) : ucalls[r][i].fn = fn})

CreateFailed(r) ==
  \E i \in 1..Len(ucalls[r]) :
    ucalls[r][i].fn = "userRepository.create" /\ ~ucalls[r][i].ok

\* the handle, the User record or the password hash of the body is rejected
BodyRejected(body) ==
  \/ body.handle = ""
  \/ body.name = ""
  \/ body.password = ""

SessionCalls == {"sessionRepository.createSession", "signAccessToken", "signRefreshToken"}

\* C9: a rejected handle, User record or password gives 400 and no call of
\* userRepository.create, createSession or the sign operations; a failed
\* userRepository.create gives 409 and no session and no signed token; each
\* request gets exactly one reply; a session is created and tokens are signed
\* only after the earlier steps succeeded; a 201 reply carries both tokens.
CreateUserOrdering ==
  \A r \in UserReqs :
    /\ Len(ureplies[r]) <= 1
    /\ upc[r] = "done" <=> Len(ureplies[r]) = 1
    /\ (upc[r] = "done" /\ BodyRejected(ubody[r]))
         => /\ ureplies[r] = <<400>>
            /\ ucalls[r] = <<>>
    /\ (upc[r] # "idle" /\ BodyRejected(ubody[r]))
         => upc[r] \in {"hashing", "done"}
    /\ (upc[r] # "idle" /\ BodyRejected(ubody[r]))
         => \A fn \in SessionCalls \cup {"userRepository.create"} : ~Made(r, fn)
    /\ CreateFailed(r)
         => /\ ureplies[r] = <<409>>
            /\ \A fn \in SessionCalls : ~Made(r, fn)
    /\ ureplies[r] = <<409>> => CreateFailed(r)
    /\ ureplies[r] = <<400>> => BodyRejected(ubody[r])
    /\ \A fn \in SessionCalls :
         Made(r, fn) => /\ ~BodyRejected(ubody[r])
                        /\ Times(r, "userRepository.create") = 1
                        /\ ~CreateFailed(r)
    /\ Made(r, "signAccessToken") => Made(r, "sessionRepository.createSession")
    /\ Made(r, "signRefreshToken") => Made(r, "signAccessToken")
    /\ ureplies[r] = <<201>>
         => /\ ubodyOut[r].accessToken.form = "jws"
            /\ ubodyOut[r].refreshToken.form = "jws"
            /\ \A fn \in SessionCalls : Times(r, fn) = 1

\* C9 witness: one request was refused with 409 after a failed
\* userRepository.create, another was answered 201 with its tokens
ConflictAndCreated ==
  \E r1, r2 \in UserReqs :
    /\ ureplies[r1] = <<409>> /\ CreateFailed(r1)
    /\ ureplies[r2] = <<201>> /\ ubodyOut[r2].refreshToken.form = "jws"

\* a request with a rejected body was answered 400
RejectedBodyAnswered ==
  \E r \in UserReqs : ureplies[r] = <<400>> /\ ubody[r].handle = ""

(***************************************************************************)
(* Properties of the createPost handler (checked under SpecPost).          *)
(***************************************************************************)
Answered == {r \in PostReqs : ppc[r] \in {"sending", "done"}}

\* C10: no two 201 responses carry the same post id; the ids handed out are
\* 1, 2, 3, ... in the order of the handlers; each request pushed its body to
\* PostStore exactly once, before its id was taken.
PostIdsDistinct ==
  /\ \A r1, r2 \in Answered : r1 # r2 => presp[r1].id # presp[r2].id
  /\ {presp[r].id : r \in Answered} = 1..Cardinality(Answered)
  /\ id = Cardinality(Answered) + 1
  /\ Len(posts) = Cardinality({r \in PostReqs : ppc[r] # "idle"})
  /\ \A r \in Answered : posts[presp[r].id] = presp[r].body
  /\ \A r \in PostReqs : ppc[r] = "pushed" => /\ presp[r] = NoPost
                                              /\ posts[Len(posts)] = pbody[r]

\* C10 witness: every request was answered while another was still awaiting
\* its send, and the ids 1..NumPostReqs were all handed out
AllPostsAnswered ==
  /\ Answered = PostReqs
  /\ \E r \in PostReqs : ppc[r] = "sending"
  /\ {presp[r].id : r \in PostReqs} = PostReqs

====
